---- MODULE Spec2Model ----
(***************************************************************************)
(* Model of the Sudoku solver: the 9-bit candidate set (bitset.rs), the    *)
(* 9x9 grid container (grid.rs) and the candidate grid with its            *)
(* consistency check, propagation and iterative-deepening search           *)
(* (solver.rs).                                                            *)
(***************************************************************************)
EXTENDS Integers, Sequences, FiniteSets, TLC

\* ------------------------------------------------------------------------
\* digit.rs
\* ------------------------------------------------------------------------

\* Digit::MIN, Digit::MAX
DigitMIN == 1
DigitMAX == 9

Digits == DigitMIN..DigitMAX

\* Option<Digit>::None
None == 0

\* Digit::new
DigitNew(value) == IF value >= DigitMIN /\ value <= DigitMAX THEN value ELSE None

\* Digit::index
index(d) == d - 1

\* Digit::next
next(d) == IF d < DigitMAX THEN d + 1 ELSE None

\* ------------------------------------------------------------------------
\* u16 arithmetic used by bitset.rs
\* ------------------------------------------------------------------------

U16 == 65536

RECURSIVE Pow2(_)
Pow2(n) == IF n = 0 THEN 1 ELSE 2 * Pow2(n - 1)

\* 1 << n on u16
Shl1(n) == Pow2(n) % U16

RECURSIVE BitAnd(_, _)
BitAnd(a, b) ==
    IF a = 0 \/ b = 0 THEN 0
    ELSE (a % 2) * (b % 2) + 2 * BitAnd(a \div 2, b \div 2)

RECURSIVE BitOr(_, _)
BitOr(a, b) ==
    IF a = 0 THEN b
    ELSE IF b = 0 THEN a
    ELSE (IF a % 2 = 1 \/ b % 2 = 1 THEN 1 ELSE 0) + 2 * BitOr(a \div 2, b \div 2)

\* !x on u16
BitNot(a) == (U16 - 1) - a

RECURSIVE count_ones(_)
count_ones(a) == IF a = 0 THEN 0 ELSE (a % 2) + count_ones(a \div 2)

RECURSIVE trailing_zeros_from(_, _)
trailing_zeros_from(a, n) ==
    IF n = 16 THEN 16
    ELSE IF a % 2 = 1 THEN n
    ELSE trailing_zeros_from(a \div 2, n + 1)

trailing_zeros(a) == trailing_zeros_from(a, 0)

\* ------------------------------------------------------------------------
\* bitset.rs: PossibleValues(u16)
\* ------------------------------------------------------------------------

\* PossibleValues::EMPTY, PossibleValues::ANY
EMPTY == 0
ANY == 511

\* every value a PossibleValues can hold: nine bits
PossibleValues == 0..ANY

\* impl From<Digit> for PossibleValues
FromDigit(value) == Shl1(index(value))

\* PossibleValues::initial_state
initial_state(value) == IF value # None THEN FromDigit(value) ELSE 511

\* PossibleValues::is_broken
pv_is_broken(self) == self = 0

\* PossibleValues::count
count(self) == count_ones(self)

\* PossibleValues::contains
contains(self, value) == ~pv_is_broken(BitAnd(self, FromDigit(value)))

\* PossibleValues::add
add(self, value) == BitOr(self, FromDigit(value))

\* remove without the complement of the digit's bit
remove_keeps_only(self, value) == BitAnd(self, Shl1(index(value)))

\* PossibleValues::remove
remove(self, value) == BitAnd(self, BitNot(Shl1(index(value))))

\* determined with the test count != 0 for count == 1
determined_nonempty(self) ==
    IF count(self) # 0 THEN DigitNew(trailing_zeros(self) + 1) ELSE None

\* PossibleValues::determined
determined(self) ==
    IF count(self) = 1 THEN DigitNew(trailing_zeros(self) + 1) ELSE None

\* The loop of PossibleValues::options: tmp is shifted right, num steps
\* through the digits; num.next() past Digit::MAX is the "Digit overflowed"
\* panic, which ends the list with None.
RECURSIVE options_loop(_, _, _)
options_loop(tmp, num, result) ==
    LET pushed == IF tmp % 2 # 0 THEN Append(result, num) ELSE result
        shifted == tmp \div 2
    IN  IF shifted = 0 THEN pushed
        ELSE IF next(num) = None THEN Append(pushed, None)
        ELSE options_loop(shifted, next(num), pushed)

\* PossibleValues::options
options(self) == options_loop(self, DigitMIN, <<>>)

\* Memo of determined() and options() over the 512 candidate sets, so that
\* the grid operations look a cell's value up instead of recomputing it.
determinedOf == [v \in PossibleValues |-> determined(v)]
optionsOf == [v \in PossibleValues |-> options(v)]

\* ------------------------------------------------------------------------
\* grid.rs: Grid<T>, a 9x9 array; grid[i][j] with i, j in 0..8
\* ------------------------------------------------------------------------

Idx == 0..8

\* Grid::splat
splat(empty) == [i \in Idx |-> [j \in Idx |-> empty]]

\* The merge of two grids by intersection: binop with |a, b| a & b
GridBitAnd(self, rhs) == [i \in Idx |-> [j \in Idx |-> BitAnd(self[i][j], rhs[i][j])]]

\* impl BitOr / BitOrAssign for Grid<PossibleValues>: binop with |a, b| a | b
GridBitOr(self, rhs) == [i \in Idx |-> [j \in Idx |-> BitOr(self[i][j], rhs[i][j])]]

\* #[derive(PartialEq)] for Grid<T>: the arrays are equal cell by cell
GridEq(self, other) == \A i \in Idx : \A j \in Idx : self[i][j] = other[i][j]

\* copy.grid[i][j] = v
SetCell(g, i, j, v) == [g EXCEPT ![i][j] = v]

\* The element of a one-element set: The({F(x) : x \in {e}}) is F(e) with e
\* evaluated once
The(S) == CHOOSE x \in S : TRUE

\* ------------------------------------------------------------------------
\* solver.rs: SudokuPossibilities = Grid<PossibleValues>
\* ------------------------------------------------------------------------

\* impl From<Sudoku> for SudokuPossibilities (a Sudoku cell is None or a digit)
FromSudoku(sudoku) == [i \in Idx |-> [j \in Idx |-> initial_state(sudoku[i][j])]]

\* SudokuPossibilities::EMPTY (every cell ANY)
GridEMPTY == splat(ANY)

\* is_broken without the test of the rows
pair_row_skipped(self, i, j, k) == FALSE

\* The three pair tests of one (i, j, k) iteration of is_broken
pair_row(self, i, j, k) ==
    LET a == determinedOf[self[i][j]]
        b == determinedOf[self[i][k]]
    IN  a # None /\ a = b

pair_col(self, i, j, k) ==
    LET a == determinedOf[self[j][i]]
        b == determinedOf[self[k][i]]
    IN  a # None /\ a = b

\* The block coordinates with i / 3 for i % 3
pair_cell_diagonal(self, i, j, k) ==
    LET ax == (i \div 3) * 3 + (j \div 3)
        ay == (i \div 3) * 3 + (j % 3)
        bx == (i \div 3) * 3 + (k \div 3)
        by == (i \div 3) * 3 + (k % 3)
        a == determinedOf[self[ax][ay]]
        b == determinedOf[self[bx][by]]
    IN  a # None /\ a = b

pair_cell(self, i, j, k) ==
    LET ax == (i \div 3) * 3 + (j \div 3)
        ay == (i % 3) * 3 + (j % 3)
        bx == (i \div 3) * 3 + (k \div 3)
        by == (i % 3) * 3 + (k % 3)
        a == determinedOf[self[ax][ay]]
        b == determinedOf[self[bx][by]]
    IN  a # None /\ a = b

\* SudokuPossibilities::is_broken
is_broken(self) ==
    \/ \E i \in Idx : \E j \in Idx : pv_is_broken(self[i][j])
    \/ \E i \in Idx : \E j \in 0..7 : \E k \in (j + 1)..8 :
          \/ pair_row(self, i, j, k)
          \/ pair_col(self, i, j, k)
          \/ pair_cell(self, i, j, k)

\* The body of infer_step's loop over the options of cell (i, j): each option
\* whose hypothetical copy is broken is removed from the cell.
RECURSIVE infer_opts(_, _, _, _)
infer_opts(self, i, j, opts) ==
    IF opts = <<>> THEN self
    ELSE LET opt == Head(opts)
             broken == \E copy \in {SetCell(self, i, j, FromDigit(opt))} : is_broken(copy)
         IN  The({infer_opts(after, i, j, Tail(opts)) :
                    after \in {IF broken
                               THEN SetCell(self, i, j, remove(self[i][j], opt))
                               ELSE self}})

\* The inner loop as for j in 0..8, leaving the last column out
RECURSIVE infer_row_eight(_, _, _)
infer_row_eight(self, i, j) ==
    IF j >= 8 THEN self
    ELSE IF determinedOf[self[i][j]] # None
         THEN infer_row_eight(self, i, j + 1)
         ELSE The({infer_row_eight(after, i, j + 1) :
                     after \in {infer_opts(self, i, j, optionsOf[self[i][j]])}})

\* infer_step's inner loop, for j in 0..9, over the cells of row i
RECURSIVE infer_row(_, _, _)
infer_row(self, i, j) ==
    IF j = 9 THEN self
    ELSE IF determinedOf[self[i][j]] # None
         THEN infer_row(self, i, j + 1)
         ELSE The({infer_row(after, i, j + 1) :
                     after \in {infer_opts(self, i, j, optionsOf[self[i][j]])}})

\* infer_step's outer loop, for i in 0..9
RECURSIVE infer_rows(_, _)
infer_rows(self, i) ==
    IF i = 9 THEN self
    ELSE The({infer_rows(after, i + 1) : after \in {infer_row(self, i, 0)}})

\* SudokuPossibilities::infer_step: [ok, grid], grid being self afterwards
infer_step(self) ==
    IF is_broken(self) THEN [ok |-> FALSE, grid |-> self]
    ELSE The({[ok |-> ~is_broken(swept), grid |-> swept] :
                swept \in {infer_rows(self, 0)}})

\* infer as one sweep
infer_one_sweep(self) == infer_step(self)

\* SudokuPossibilities::infer
RECURSIVE infer(_)
infer(self) ==
    LET original == self
    IN  The({IF ~step.ok THEN step
             ELSE IF GridEq(step.grid, original) THEN step
             ELSE infer(step.grid) : step \in {infer_step(self)}})

\* The results of solved(): Option<SudokuSolution>, and the two panics (the
\* assertion on a broken grid, the unwrap of an undetermined cell)
NoGrid == splat(0)
SolvedPanic == [tag |-> "Panic", value |-> NoGrid]
SolvedNone == [tag |-> "None", value |-> NoGrid]
SolvedSome(solution) == [tag |-> "Some", value |-> solution]

\* SudokuPossibilities::solved
solved(self) ==
    IF is_broken(self) THEN SolvedPanic
    ELSE IF \E i \in Idx : \E j \in 0..7 : determinedOf[self[i][j]] = None
         THEN SolvedNone
    ELSE IF \E i \in Idx : \E j \in Idx : determinedOf[self[i][j]] = None
         THEN SolvedPanic
    ELSE SolvedSome([i \in Idx |-> [j \in Idx |-> determinedOf[self[i][j]]]])

\* Result<SudokuSolution, CannotSolve>, and a panic unwinding out of the call
Ok(solution) == [kind |-> "Ok", grid |-> solution]
ErrBroken == [kind |-> "Broken", grid |-> NoGrid]
ErrDepthLimit(g) == [kind |-> "DepthLimit", grid |-> g]
Panicked == [kind |-> "Panic", grid |-> NoGrid]
NoResult == [kind |-> "None", grid |-> NoGrid]

\* The scan of recursive_hypothetical's loops for the next cell that is not
\* determined, from column j of row i on; 9 when the row has none
RECURSIVE scan_row(_, _, _)
scan_row(self, i, j) ==
    IF j = 9 THEN 9
    ELSE IF determinedOf[self[i][j]] # None THEN scan_row(self, i, j + 1)
    ELSE j

\* The scan without the continue on determined cells
scan_no_skip(self, n) == IF n >= 81 THEN 81 ELSE n

\* ... as a cell number 9 * i + j, from cell n on; 81 when the loops end
RECURSIVE scan_from(_, _)
scan_from(self, n) ==
    IF n >= 81 THEN 81
    ELSE LET i == n \div 9
             j == scan_row(self, i, n % 9)
         IN  IF j < 9 THEN 9 * i + j ELSE scan_from(self, 9 * (i + 1))

\* while let Some(a) = alts.pop() { combined |= a }
RECURSIVE or_pop(_, _)
or_pop(combined, alts) ==
    IF alts = <<>> THEN combined
    ELSE The({or_pop(merged, SubSeq(alts, 1, Len(alts) - 1)) :
                merged \in {GridBitOr(combined, alts[Len(alts)])}})

\* The merge keeping the popped grid alone
combine_popped_only(alts) ==
    IF alts = <<>> THEN splat(EMPTY) ELSE alts[Len(alts)]

\* alts.pop().unwrap_or(Grid::splat(EMPTY)), then the loop above
combine(alts) ==
    IF alts = <<>> THEN splat(EMPTY)
    ELSE or_pop(alts[Len(alts)], SubSeq(alts, 1, Len(alts) - 1))

\* ------------------------------------------------------------------------
\* Input puzzles (Sudoku = Grid<Option<Digit>>)
\* ------------------------------------------------------------------------

\* How many cells of a pool are blanked at most
NBlanks == 14

\* How far the model follows solve's limit
MaxLimit == 3

\* A completed, valid grid
Solution == [i \in Idx |-> [j \in Idx |-> ((3 * (i % 3) + (i \div 3) + j) % 9) + 1]]

\* The cells blanked in Solution, in this order: an eight-cell pattern that
\* propagation alone cannot decide, then two six-cell patterns with two
\* completions each
SolutionPool ==
    << <<0, 1>>, <<0, 2>>, <<0, 4>>, <<0, 7>>, <<1, 1>>, <<1, 4>>, <<2, 1>>, <<2, 7>>,
       <<3, 0>>, <<3, 3>>, <<3, 6>>, <<4, 0>>, <<4, 3>>, <<4, 6>>,
       <<6, 1>>, <<6, 4>>, <<6, 7>>, <<7, 1>>, <<7, 4>>, <<7, 7>> >>

\* A filled grid with clashing clues: with its first fourteen pool cells
\* blanked no two clues clash and every blank cell keeps two candidates,
\* yet rows 0, 2 and 6 each have three blank cells sharing two candidates
ClashRows ==
    << <<1, 2, 1, 4, 5, 6, 7, 8, 9>>,
       <<3, 8, 9, 1, 7, 2, 4, 5, 6>>,
       <<7, 6, 4, 8, 9, 8, 3, 2, 1>>,
       <<2, 7, 1, 6, 4, 3, 5, 9, 8>>,
       <<6, 5, 3, 9, 2, 8, 1, 7, 4>>,
       <<4, 9, 8, 5, 1, 7, 2, 6, 3>>,
       <<1, 2, 7, 8, 9, 4, 6, 3, 5>>,
       <<9, 3, 5, 7, 6, 1, 8, 4, 2>>,
       <<8, 4, 6, 2, 3, 5, 9, 1, 7>> >>

Clashing == [i \in Idx |-> [j \in Idx |-> ClashRows[i + 1][j + 1]]]

ClashingPool ==
    << <<0, 0>>, <<0, 1>>, <<0, 2>>, <<2, 3>>, <<2, 4>>, <<2, 5>>, <<3, 0>>,
       <<3, 2>>, <<4, 3>>, <<4, 5>>, <<6, 0>>, <<6, 1>>, <<6, 3>>, <<6, 4>>,
       <<1, 0>>, <<8, 8>> >>

\* base with the first k cells of pool blanked
Erase(base, pool, k) ==
    [i \in Idx |-> [j \in Idx |->
        IF \E m \in 1..k : m <= Len(pool) /\ pool[m] = <<i, j>> THEN None ELSE base[i][j]]]

\* The top cell of the last column, a six-cell pattern with two completions
\* that has two cells in the last column, then the eight-cell pattern
LastColumnPool ==
    << <<0, 8>>, <<3, 2>>, <<3, 5>>, <<3, 8>>, <<4, 2>>, <<4, 5>>, <<4, 8>> >>
        \o SubSeq(SolutionPool, 1, 8)

Puzzles ==
    {Erase(Solution, SolutionPool, k) : k \in 0..NBlanks}
        \cup {Erase(Clashing, ClashingPool, k) : k \in 0..NBlanks}
        \cup {Erase(Solution, LastColumnPool, k) : k \in 0..NBlanks}

\* ------------------------------------------------------------------------
\* solver.rs: solve and recursive_hypothetical as a state machine
\* ------------------------------------------------------------------------

VARIABLES
    sudoku,     \* the puzzle solve was built from
    grids,      \* grids[<<>>] is solve's self; grids[p] is the copy of branch p
    frames,     \* the running calls of recursive_hypothetical, by branch path
    limit,      \* solve's limit
    last,       \* the result of the last call solve matched on
    outcome,    \* what solve returned
    pv,         \* a PossibleValues under test
    board,      \* a SudokuPossibilities under test
    out         \* the last function applied under test, and its result

vars == <<sudoku, grids, frames, limit, last, outcome, pv, board, out>>

searchVars == <<sudoku, grids, frames, limit, last, outcome>>
testVars == <<pv, board, out>>

Root == <<>>
Kid(p, k) == Append(p, k)
Kids(p) == {Kid(p, k) : k \in 1..frames[p].kids}

\* A call of recursive_hypothetical(depth, limit) that has just been made
NewFrame(depth) ==
    [depth |-> depth, pc |-> "infer", n |-> 0, cell |-> 0, kids |-> 0,
     result |-> NoResult]

Return(f, result) == [f EXCEPT !.pc = "done", !.result = result]

NoOut == [op |-> "none", arg |-> 0, val |-> NoResult]

TestIdle == pv = EMPTY /\ board = NoGrid /\ out = NoOut

\* solve, lines 190-193: limit = 1 and the first call, on self
Init ==
    /\ sudoku \in Puzzles
    /\ grids = (Root :> FromSudoku(sudoku))
    /\ frames = (Root :> NewFrame(1))
    /\ limit = 1
    /\ last = NoResult
    /\ outcome = NoResult
    /\ TestIdle

\* recursive_hypothetical, lines 148-154: infer, solved, the depth check
Enter(p) ==
    /\ frames[p].pc = "infer"
    /\ \E inferred \in {infer(grids[p])} : \E solution \in {solved(inferred.grid)} :
       LET self == inferred.grid
       IN  /\ grids' = [grids EXCEPT ![p] = self]
           /\ frames' = [frames EXCEPT ![p] =
                  IF ~inferred.ok THEN Return(@, ErrBroken)
                  ELSE IF solution.tag = "Panic" THEN Return(@, Panicked)
                  ELSE IF solution.tag = "Some" THEN Return(@, Ok(solution.value))
                  ELSE IF @.depth > limit THEN Return(@, ErrDepthLimit(self))
                  ELSE [@ EXCEPT !.pc = "scan", !.n = 0]]
    /\ UNCHANGED <<sudoku, limit, last, outcome, testVars>>

\* The grid a branch starts from: copy = *self; copy.grid[i][j] = opt
branch_copy(self, i, j, opt) == SetCell(self, i, j, FromDigit(opt))

\* recursive_hypothetical, lines 156-171 and 187: the loops reach the next
\* undetermined cell and one task per option is spawned, or they end
Scan(p) ==
    /\ frames[p].pc = "scan"
    /\ \E c \in {scan_from(grids[p], frames[p].n)} :
       LET self == grids[p]
           i == c \div 9
           j == c % 9
           opts == IF c < 81 THEN optionsOf[self[i][j]] ELSE <<>>
           spawned == {Kid(p, k) : k \in 1..Len(opts)}
       IN  IF c = 81
           THEN /\ frames' = [frames EXCEPT ![p] = Return(@, ErrDepthLimit(self))]
                /\ grids' = grids
           ELSE /\ frames' =
                    [q \in DOMAIN frames \cup spawned |->
                        IF q = p
                        THEN [frames[p] EXCEPT !.pc = "collect", !.cell = c,
                                               !.kids = Len(opts)]
                        ELSE IF q \in spawned THEN NewFrame(frames[p].depth + 1)
                        ELSE frames[q]]
                /\ grids' =
                    [q \in DOMAIN grids \cup spawned |->
                        IF q \in spawned
                        THEN branch_copy(self, i, j, opts[q[Len(q)]])
                        ELSE grids[q]]
    /\ UNCHANGED <<sudoku, limit, last, outcome, testVars>>

\* The match taking the solution of the last solved branch
last_ok(solvedAt) == CHOOSE k \in solvedAt : \A m \in solvedAt : k >= m

\* for opt in ... { match opt { Ok(solved) => return Ok(solved), ...: the
\* results are matched in the order of the options, the first Ok returns
first_ok(solvedAt) == CHOOSE k \in solvedAt : \A m \in solvedAt : k <= m

\* recursive_hypothetical, lines 171-183: collect waits for every task, then
\* the results are matched in the order of the options
Join(p) ==
    /\ frames[p].pc = "collect"
    /\ \A q \in Kids(p) : frames[q].pc = "done"
    /\ \E limited \in {SelectSeq([k \in 1..frames[p].kids |-> frames[Kid(p, k)].result],
                                 LAMBDA r : r.kind = "DepthLimit")} :
       \E combined \in {combine([k \in DOMAIN limited |-> limited[k].grid])} :
       LET results == [k \in 1..frames[p].kids |-> frames[Kid(p, k)].result]
           solvedAt == {k \in DOMAIN results : results[k].kind = "Ok"}
           first == first_ok(solvedAt)
           rest == DOMAIN frames \ Kids(p)
       IN  /\ frames' =
                [q \in rest |->
                    IF q # p THEN frames[q]
                    ELSE IF \E k \in DOMAIN results : results[k].kind = "Panic"
                    THEN Return(frames[p], Panicked)
                    ELSE IF solvedAt # {} THEN Return(frames[p], results[first])
                    ELSE [frames[p] EXCEPT !.pc = "scan", !.n = frames[p].cell + 1,
                                           !.kids = 0]]
           /\ grids' =
                [q \in rest |->
                    IF q = p /\ solvedAt = {}
                            /\ ~\E k \in DOMAIN results : results[k].kind = "Panic"
                    THEN combined
                    ELSE grids[q]]
    /\ UNCHANGED <<sudoku, limit, last, outcome, testVars>>

\* solve, lines 194-195: the call returned a solution or Broken (or panicked)
Finish ==
    /\ Root \in DOMAIN frames
    /\ frames[Root].pc = "done"
    /\ frames[Root].result.kind # "DepthLimit"
    /\ outcome' = frames[Root].result
    /\ last' = frames[Root].result
    /\ frames' = << >>
    /\ UNCHANGED <<sudoku, grids, limit, testVars>>

\* solve retrying on the grid built from the puzzle
retry_from_puzzle(self, puzzle) == FromSudoku(puzzle)

\* The grid solve's next call works on: self, as the last call left it
retry_self(self, puzzle) == self

\* solve retrying without limit += 1
same_limit(n) == n

\* limit += 1
next_limit(n) == n + 1

\* solve, lines 196-198 and 193: DepthLimit, limit += 1, the next call
Retry ==
    /\ Root \in DOMAIN frames
    /\ frames[Root].pc = "done"
    /\ frames[Root].result.kind = "DepthLimit"
    /\ limit < MaxLimit
    /\ limit' = next_limit(limit)
    /\ last' = frames[Root].result
    /\ grids' = (Root :> retry_self(grids[Root], sudoku))
    /\ frames' = (Root :> NewFrame(1))
    /\ UNCHANGED <<sudoku, outcome, testVars>>

Next ==
    \/ \E p \in DOMAIN frames : Enter(p)
    \/ \E p \in DOMAIN frames : Scan(p)
    \/ \E p \in DOMAIN frames : Join(p)
    \/ Finish
    \/ Retry

Spec == Init /\ [][Next]_vars

\* The calls and tasks are run to completion: every enabled step is taken
FairSpec == Spec /\ WF_vars(Next)

\* ------------------------------------------------------------------------
\* The functions of bitset.rs and solver.rs applied on their own
\* ------------------------------------------------------------------------

SearchIdle ==
    /\ sudoku = NoGrid
    /\ grids = << >>
    /\ frames = << >>
    /\ limit = 0
    /\ last = NoResult
    /\ outcome = NoResult

Applied(op, arg, val) == [op |-> op, arg |-> arg, val |-> val]

\* PossibleValues are built by initial_state or are the constants EMPTY, ANY
InitBits ==
    /\ SearchIdle
    /\ pv \in {EMPTY, ANY} \cup {initial_state(value) : value \in Digits \cup {None}}
    /\ board = NoGrid
    /\ out = NoOut

\* PossibleValues::add
Add(value) ==
    /\ pv' = add(pv, value)
    /\ out' = NoOut
    /\ UNCHANGED <<searchVars, board>>

\* PossibleValues::remove
Remove(value) ==
    /\ pv' = remove(pv, value)
    /\ out' = NoOut
    /\ UNCHANGED <<searchVars, board>>

\* PossibleValues::options
ApplyOptions ==
    /\ out' = Applied("options", pv, options(pv))
    /\ UNCHANGED <<searchVars, board, pv>>

\* PossibleValues::determined
ApplyDetermined ==
    /\ out' = Applied("determined", pv, determined(pv))
    /\ UNCHANGED <<searchVars, board, pv>>

NextBits ==
    \/ \E value \in Digits : Add(value)
    \/ \E value \in Digits : Remove(value)
    \/ ApplyOptions
    \/ ApplyDetermined

SpecBits == InitBits /\ [][NextBits]_vars

\* How many digits the second cell of a pair is narrowed to, in turn
NarrowDigits == 2

Cells == Idx \X Idx

\* SudokuPossibilities::EMPTY with cell a narrowed to the digit MIN and a
\* later cell b narrowed to the digit e
PairGrids ==
    {SetCell(SetCell(GridEMPTY, a[1], a[2], FromDigit(DigitMIN)), b[1], b[2], FromDigit(e)) :
        <<a, b, e>> \in {t \in Cells \X Cells \X (1..NarrowDigits) :
                            9 * t[1][1] + t[1][2] < 9 * t[2][1] + t[2][2]}}

\* SudokuPossibilities::EMPTY with one cell left without candidates
HoleGrids == {SetCell(GridEMPTY, a[1], a[2], EMPTY) : a \in Cells}

InitPairs ==
    /\ SearchIdle
    /\ pv = EMPTY
    /\ board \in PairGrids \cup HoleGrids
    /\ out = NoOut

\* SudokuPossibilities::is_broken
ApplyIsBroken ==
    /\ out.op # "is_broken"
    /\ out' = Applied("is_broken", 0, is_broken(board))
    /\ UNCHANGED <<searchVars, pv, board>>

NextPairs == ApplyIsBroken

SpecPairs == InitPairs /\ [][NextPairs]_vars

\* Solution with the one cell a blanked
BlankOne(a) == [Solution EXCEPT ![a[1]][a[2]] = None]

InitSolved ==
    /\ SearchIdle
    /\ pv = EMPTY
    /\ board \in {FromSudoku(p) : p \in Puzzles \cup {BlankOne(a) : a \in Cells}}
    /\ out = NoOut

\* SudokuPossibilities::solved
ApplySolved ==
    /\ out.op # "solved"
    /\ out' = Applied("solved", 0, solved(board))
    /\ UNCHANGED <<searchVars, pv, board>>

NextSolved == ApplyIsBroken \/ ApplySolved

SpecSolved == InitSolved /\ [][NextSolved]_vars

\* How many hypotheses are stacked on a puzzle before infer is applied
MaxHypotheses == 2

InitInfer ==
    /\ SearchIdle
    /\ pv = EMPTY
    /\ board \in {FromSudoku(p) : p \in Puzzles}
    /\ out = NoOut

\* SudokuPossibilities::infer_step, on self
ApplyInferStep ==
    /\ out.op # "infer"
    /\ LET step == infer_step(board)
       IN  /\ board' = step.grid
           /\ out' = Applied("infer_step", out.arg, step.ok)
    /\ UNCHANGED <<searchVars, pv>>

\* SudokuPossibilities::infer, on self
ApplyInfer ==
    /\ out.op # "infer"
    /\ LET inferred == infer(board)
       IN  /\ board' = inferred.grid
           /\ out' = Applied("infer", out.arg, inferred.ok)
    /\ UNCHANGED <<searchVars, pv>>

\* recursive_hypothetical, lines 156-166: the first undetermined cell of an
\* inferred grid is set to one of its options
Hypothesis ==
    /\ out.op = "infer"
    /\ out.val = TRUE
    /\ out.arg < MaxHypotheses
    /\ LET c == scan_from(board, 0)
       IN  /\ c < 81
           /\ \E k \in 1..Len(optionsOf[board[c \div 9][c % 9]]) :
                board' = branch_copy(board, c \div 9, c % 9,
                                     optionsOf[board[c \div 9][c % 9]][k])
    /\ out' = Applied("none", out.arg + 1, NoResult)
    /\ UNCHANGED <<searchVars, pv>>

NextInfer == ApplyInferStep \/ ApplyInfer \/ Hypothesis

SpecInfer == InitInfer /\ [][NextInfer]_vars

\* ------------------------------------------------------------------------
\* What the properties are measured against: Sudoku by its rules
\* ------------------------------------------------------------------------

\* The digits a mask stands for
DigitsOf(v) == {d \in Digits : (v \div Pow2(d - 1)) % 2 = 1}

\* The k-th smallest element of a set of digits
NthDigit(ds, k) == CHOOSE d \in ds : Cardinality({e \in ds : e < d}) = k - 1

SameUnit(a, b) ==
    \/ a[1] = b[1]
    \/ a[2] = b[2]
    \/ a[1] \div 3 = b[1] \div 3 /\ a[2] \div 3 = b[2] \div 3

Peers(a) == {b \in Cells : b # a /\ SameUnit(a, b)}

\* Every cell holds a digit and no unit holds a digit twice
ValidGrid(g) ==
    /\ \A a \in Cells : g[a[1]][a[2]] \in Digits
    /\ \A a \in Cells : \A b \in Peers(a) : g[a[1]][a[2]] # g[b[1]][b[2]]

\* g keeps every clue of puzzle
KeepsClues(g, puzzle) ==
    \A a \in Cells : puzzle[a[1]][a[2]] # None => g[a[1]][a[2]] = puzzle[a[1]][a[2]]

BlankCells(puzzle) ==
    SelectSeq([n \in 1..81 |-> <<(n - 1) \div 9, (n - 1) % 9>>],
              LAMBDA a : puzzle[a[1]][a[2]] = None)

ClueClash(puzzle) ==
    \E a \in Cells : \E b \in Peers(a) :
        puzzle[a[1]][a[2]] # None /\ puzzle[a[1]][a[2]] = puzzle[b[1]][b[2]]

\* Can the blank cells be filled one after the other without a clash
RECURSIVE CanFill(_, _)
CanFill(g, blanks) ==
    IF blanks = << >> THEN TRUE
    ELSE LET a == Head(blanks)
         IN  \E d \in Digits :
                /\ \A b \in Peers(a) : g[b[1]][b[2]] # d
                /\ CanFill(SetCell(g, a[1], a[2], d), Tail(blanks))

HasCompletion(puzzle) == ~ClueClash(puzzle) /\ CanFill(puzzle, BlankCells(puzzle))

Undetermined(puzzle) == Len(BlankCells(puzzle))

\* ------------------------------------------------------------------------
\* Properties
\* ------------------------------------------------------------------------

\* C1: whenever solve returns a solution grid, every cell of it holds a digit
\* 1..9, no digit occurs twice in a row, column or block, and every clue of
\* the input puzzle is kept.
C1_SolutionIsValidCompletion ==
    outcome.kind = "Ok" =>
        ValidGrid(outcome.grid) /\ KeepsClues(outcome.grid, sudoku)

\* A solution returned after a retry, found by branching
C1_Witness == outcome.kind = "Ok" /\ limit = 2 /\ Undetermined(sudoku) > 0

\* C2: solve returns a solution whenever the puzzle has a valid completion
\* and Broken whenever it has none, also when the first propagation finds
\* no contradiction.
C2_SolvedIffCompletable ==
    outcome.kind # "None" =>
        IF HasCompletion(sudoku) THEN outcome.kind = "Ok" ELSE outcome.kind = "Broken"

\* Broken returned for a puzzle whose clues do not clash and whose first
\* propagation succeeds
C2_Witness ==
    /\ outcome.kind = "Broken"
    /\ ~ClueClash(sudoku)
    /\ infer(FromSudoku(sudoku)).ok

\* C3: solve terminates with a solution or Broken, and a limit that was
\* raised is at most the number of undetermined cells, which is at most 81.
C3_Terminates ==
    /\ <>(outcome.kind \in {"Ok", "Broken"})
    /\ [](limit <= 81 /\ (limit > 1 => limit <= Undetermined(sudoku)))

\* solve has returned after raising the limit
C3_Witness == outcome.kind \in {"Ok", "Broken"} /\ limit > 1 /\ last = outcome
\* A cell determined by the rules: its mask is one digit's bit
Single(v) == Cardinality(DigitsOf(v)) = 1 /\ v < Pow2(DigitMAX)

BrokenByRule(g) ==
    \/ \E a \in Cells : g[a[1]][a[2]] = EMPTY
    \/ \E a \in {c \in Cells : Single(g[c[1]][c[2]])} :
       \E b \in {c \in Cells : Single(g[c[1]][c[2]])} :
          a # b /\ SameUnit(a, b) /\ g[a[1]][a[2]] = g[b[1]][b[2]]

\* C4: is_broken is true exactly when some cell has no candidate or two
\* distinct cells of one row, column or block are determined with the same
\* digit, for every pair of cells of the grid.
C4_IsBrokenIffRule ==
    out.op = "is_broken" => out.val = BrokenByRule(board)

\* Two equal digits that share a block and neither a row nor a column
C4_Witness ==
    /\ out.op = "is_broken"
    /\ out.val = TRUE
    /\ \E a \in Cells : \E b \in Cells :
          /\ a[1] # b[1] /\ a[2] # b[2] /\ SameUnit(a, b)
          /\ Single(board[a[1]][a[2]]) /\ board[a[1]][a[2]] = board[b[1]][b[2]]

AllDetermined(g) == \A a \in Cells : Single(g[a[1]][a[2]])

DigitGrid(g) == [i \in Idx |-> [j \in Idx |-> NthDigit(DigitsOf(g[i][j]), 1)]]

\* C5: on a grid that is not broken, solved returns the digit grid when all
\* 81 cells are determined and None in every other case, without failing.
C5_SolvedNoneUnlessComplete ==
    out.op = "solved" /\ ~BrokenByRule(board) =>
        IF AllDetermined(board) THEN out.val = SolvedSome(DigitGrid(board))
        ELSE out.val = SolvedNone

\* C6: after infer returned Ok, infer and infer_step return Ok again and
\* leave every cell as it is.
C6_InferFixedPoint ==
    out.op = "infer" /\ out.val = TRUE =>
        /\ infer(board) = [ok |-> TRUE, grid |-> board]
        /\ infer_step(board) = [ok |-> TRUE, grid |-> board]

\* infer returned Ok on a hypothesis and left cells undetermined
C6_Witness ==
    /\ out.op = "infer"
    /\ out.val = TRUE
    /\ out.arg >= 1
    /\ ~AllDetermined(board)

\* C7: options lists exactly the contained digits, ascending and each once,
\* so that its length is count; determined is Some(d) exactly when options
\* is the list of d alone.
C7_OptionsAndDetermined ==
    /\ out.op = "options" =>
        /\ \A d \in Digits : contains(out.arg, d) <=> \E k \in DOMAIN out.val : out.val[k] = d
        /\ \A k \in DOMAIN out.val : out.val[k] \in DigitsOf(out.arg)
        /\ \A k \in 1..(Len(out.val) - 1) : out.val[k] < out.val[k + 1]
        /\ Len(out.val) = count(out.arg)
    /\ out.op = "determined" =>
        /\ \A d \in Digits : out.val = d <=> options(out.arg) = <<d>>
        /\ out.val = None <=> Len(options(out.arg)) # 1

\* options applied to a set of three digits
C7_Witness ==
    /\ out.op = "options"
    /\ Cardinality(DigitsOf(out.arg)) = 3
    /\ Len(out.val) = 3
\* A call of recursive_hypothetical that solve has just made
FreshCall == Root \in DOMAIN frames /\ frames[Root].pc = "infer"

\* C8 as stated: every call solve makes, the retries included, works on the
\* grid built from the input puzzle.
C8_RetryFromPuzzle == FreshCall => grids[Root] = FromSudoku(sudoku)

\* C8 amended: a retry works on the grid the previous call left in self,
\* which is the grid its DepthLimit failure carries.
C8_RetryFromNarrowed ==
    FreshCall /\ limit > 1 =>
        last.kind = "DepthLimit" /\ grids[Root] = last.grid

\* A retry on a grid narrowed by the previous call and not emptied
C8_Witness ==
    /\ FreshCall
    /\ limit > 1
    /\ grids[Root] # FromSudoku(sudoku)
    /\ ~BrokenByRule(grids[Root])

CellAt(g, m) == g[m \div 9][m % 9]

\* C9 as stated: a node branches on one cell only, the first undetermined
\* cell of its grid, and its scan is never resumed after a branching.
C9_OneBranchingPerNode ==
    \A p \in DOMAIN frames :
        frames[p].pc \in {"scan", "collect"} => frames[p].n = 0

\* C9 amended: every branching of a node is on the first undetermined cell
\* at or after the position its scan has reached, with one branch per
\* candidate digit in ascending order, each on a copy with that cell set to
\* the digit; after a branching without a solution the scan resumes at the
\* next cell, and the node fails with DepthLimit at or below the limit only
\* when no undetermined cell is left from there on.
C9_BranchesAlongTheScan ==
    \A p \in DOMAIN frames :
        LET f == frames[p]
            g == grids[p]
            ds == DigitsOf(CellAt(g, f.cell))
        IN  /\ f.pc = "collect" =>
                /\ f.n <= f.cell /\ f.cell <= 80
                /\ \A m \in f.n..(f.cell - 1) : Single(CellAt(g, m))
                /\ ~Single(CellAt(g, f.cell))
                /\ f.kids = Cardinality(ds)
                /\ \A k \in 1..f.kids :
                      /\ Kid(p, k) \in DOMAIN frames
                      /\ frames[Kid(p, k)].depth = f.depth + 1
                      /\ frames[Kid(p, k)].pc = "infer" =>
                            grids[Kid(p, k)] =
                                SetCell(g, f.cell \div 9, f.cell % 9,
                                        Pow2(NthDigit(ds, k) - 1))
            /\ f.pc = "scan" => f.n = 0 \/ f.n = f.cell + 1
            /\ f.pc = "done" /\ f.result.kind = "DepthLimit" /\ f.depth <= limit =>
                \A m \in f.n..80 : Single(CellAt(g, m))

\* A node branching a second time, on a cell with several candidates
C9_Witness ==
    \E p \in DOMAIN frames :
        frames[p].pc = "collect" /\ frames[p].n > 0 /\ frames[p].kids >= 2

\* C10 as stated: a node whose branches were merged fails with DepthLimit.
C10_MergeEndsNode ==
    \A p \in DOMAIN frames :
        frames[p].pc = "done" /\ frames[p].n > 0 => frames[p].result.kind = "DepthLimit"

\* C10 amended: when no branch of a branching returns a solution the node's
\* grid becomes the cellwise union of the grids of the branches that failed
\* with DepthLimit, the all-empty grid when there is none, and the scan goes
\* on; a DepthLimit failure carries the grid the node has then, and a node
\* fails with Broken only when its own infer reports a contradiction.
C10_MergeIsUnion ==
    /\ [][\A p \in DOMAIN frames :
            frames[p].pc = "collect" /\ p \in DOMAIN frames' /\ frames'[p].pc = "scan" =>
                \A a \in Cells :
                    /\ grids'[p][a[1]][a[2]] \in PossibleValues
                    /\ DigitsOf(grids'[p][a[1]][a[2]]) =
                         UNION {DigitsOf(frames[q].result.grid[a[1]][a[2]]) :
                                  q \in {r \in Kids(p) : frames[r].result.kind = "DepthLimit"}}]_vars
    /\ [](\A p \in DOMAIN frames :
            /\ frames[p].pc = "done" /\ frames[p].result.kind = "DepthLimit" =>
                  frames[p].result.grid = grids[p]
            /\ frames[p].pc = "done" /\ frames[p].result.kind = "Broken" =>
                  frames[p].n = 0 /\ frames[p].kids = 0 /\ BrokenByRule(grids[p]))

\* A node that returns a solution found after one of its merges
C10_Witness ==
    \E p \in DOMAIN frames :
        frames[p].pc = "done" /\ frames[p].result.kind = "Ok" /\ frames[p].n > 0
\* C11: a node that has a branch with a solution is never still waiting for
\* another of its branches to finish.
C11_NoWaitingOnceSolved ==
    \A p \in DOMAIN frames :
        frames[p].pc = "collect" =>
            ~(/\ \E q \in Kids(p) : frames[q].pc = "done" /\ frames[q].result.kind = "Ok"
              /\ \E q \in Kids(p) : frames[q].pc # "done")
\* recursive_hypothetical and solve with the tasks of every branching run
\* one after the other, in the order of the options
RECURSIVE rh_seq(_, _, _)
RECURSIVE rh_seq_rows(_, _, _, _)
RECURSIVE rh_seq_row(_, _, _, _, _)
rh_seq(self, depth, lim) ==
    LET inferred == infer(self)
        solution == solved(inferred.grid)
    IN  IF ~inferred.ok THEN ErrBroken
        ELSE IF solution.tag = "Panic" THEN Panicked
        ELSE IF solution.tag = "Some" THEN Ok(solution.value)
        ELSE IF depth > lim THEN ErrDepthLimit(inferred.grid)
        ELSE rh_seq_rows(inferred.grid, 0, depth, lim)

\* The branching on cell (i, j): the result returned, if one is, and the
\* grid the loops go on with
rh_seq_branch(self, i, j, depth, lim) ==
    LET opts == optionsOf[self[i][j]]
        results == [k \in 1..Len(opts) |->
                       rh_seq(branch_copy(self, i, j, opts[k]), depth + 1, lim)]
        limited == SelectSeq(results, LAMBDA r : r.kind = "DepthLimit")
    IN  IF \E k \in 1..Len(opts) : results[k].kind = "Panic"
        THEN [returned |-> TRUE, result |-> Panicked, grid |-> self]
        ELSE IF \E k \in 1..Len(opts) : results[k].kind = "Ok"
        THEN [returned |-> TRUE,
              result |-> results[CHOOSE k \in 1..Len(opts) :
                                    /\ results[k].kind = "Ok"
                                    /\ \A m \in 1..(k - 1) : results[m].kind # "Ok"],
              grid |-> self]
        ELSE [returned |-> FALSE, result |-> NoResult,
              grid |-> combine([k \in 1..Len(limited) |-> limited[k].grid])]

\* for j in 0..9, from column j of row i on
rh_seq_row(self, i, j, depth, lim) ==
    IF j = 9 THEN [returned |-> FALSE, result |-> NoResult, grid |-> self]
    ELSE IF determinedOf[self[i][j]] # None THEN rh_seq_row(self, i, j + 1, depth, lim)
    ELSE LET branched == rh_seq_branch(self, i, j, depth, lim)
         IN  IF branched.returned THEN branched
             ELSE rh_seq_row(branched.grid, i, j + 1, depth, lim)

\* for i in 0..9, from row i on, and the final Err(DepthLimit(*self))
rh_seq_rows(self, i, depth, lim) ==
    IF i = 9 THEN ErrDepthLimit(self)
    ELSE LET row == rh_seq_row(self, i, 0, depth, lim)
         IN  IF row.returned THEN row.result
             ELSE rh_seq_rows(row.grid, i + 1, depth, lim)

\* The result of solve's n-th call
RECURSIVE seq_attempt(_, _)
seq_attempt(puzzle, n) ==
    IF n = 1 THEN rh_seq(FromSudoku(puzzle), 1, 1)
    ELSE The({rh_seq(before.grid, 1, n) : before \in {seq_attempt(puzzle, n - 1)}})

\* The same kind of result with the same grid, cell by cell
SameResult(a, b) ==
    /\ a.kind = b.kind
    /\ \A i \in Idx : \A j \in Idx : a.grid[i][j] = b.grid[i][j]

\* C12: a grid changes only by its own node's infer and by its own node's
\* merge once all branches of the step are done; a node that returns a
\* solution returns the one of its first solved branch in the order of the
\* digits; and every result solve gets, whatever the order in which the
\* branch tasks ran, is the result of running them one after the other.
C12_InterleavingIndependent ==
    /\ [][\A p \in DOMAIN frames \cap DOMAIN frames' :
            /\ grids'[p] # grids[p] =>
                  \/ frames[p].pc = "infer"
                  \/ /\ frames[p].pc = "collect"
                     /\ \A q \in Kids(p) : frames[q].pc = "done"
            /\ frames[p].pc = "collect" /\ frames'[p].pc = "done"
                    /\ frames'[p].result.kind = "Ok" =>
                  \E k \in 1..frames[p].kids :
                      /\ frames'[p].result = frames[Kid(p, k)].result
                      /\ \A m \in 1..(k - 1) : frames[Kid(p, m)].result.kind # "Ok"]_vars
    /\ [](/\ outcome.kind # "None" => SameResult(outcome, seq_attempt(sudoku, limit))
          /\ FreshCall /\ limit > 1 => SameResult(last, seq_attempt(sudoku, limit - 1)))

\* Two branches of one node have returned different solutions
C12_Witness ==
    \E p \in DOMAIN frames : \E q \in Kids(p) : \E r \in Kids(p) :
        /\ frames[p].pc = "collect"
        /\ frames[q].pc = "done" /\ frames[q].result.kind = "Ok"
        /\ frames[r].pc = "done" /\ frames[r].result.kind = "Ok"
        /\ frames[q].result.grid # frames[r].result.grid

\* Every way to fill the blank cells one after the other without a clash
RECURSIVE Fills(_, _)
Fills(g, blanks) ==
    IF blanks = << >> THEN {g}
    ELSE LET a == Head(blanks)
         IN  UNION {Fills(SetCell(g, a[1], a[2], d), Tail(blanks)) :
                       d \in {e \in Digits : \A b \in Peers(a) : g[b[1]][b[2]] # e}}

\* The valid completed grids that keep the clues of puzzle. A candidate grid
\* of the search is cellwise a subset of FromSudoku(puzzle), so these are all
\* the valid completed grids that can lie within it.
Completions(puzzle) ==
    IF ClueClash(puzzle) THEN {} ELSE Fills(puzzle, BlankCells(puzzle))

\* The digit of s in each cell is a candidate of that cell in g
Within(s, g) == \A a \in Cells : s[a[1]][a[2]] \in DigitsOf(g[a[1]][a[2]])

\* The grid the call of node p was made on
EntryGrid(p) ==
    IF p = Root
    THEN IF limit = 1 THEN FromSudoku(sudoku) ELSE last.grid
    ELSE LET parent == SubSeq(p, 1, Len(p) - 1)
             c == frames[parent].cell
             self == grids[parent]
         IN  branch_copy(self, c \div 9, c % 9,
                         optionsOf[self[c \div 9][c % 9]][p[Len(p)]])

\* C13: for every grid of the search and every valid completed grid lying
\* within it, infer_step and infer return Ok and leave the completed grid
\* within the result; and the grid of a node, after each merge of its
\* branches and when it is returned in DepthLimit, holds every valid
\* completed grid that lay within the grid the node was called on.
C13_PropagationKeepsSolutions ==
    \A p \in DOMAIN frames :
        LET here == {s \in Completions(sudoku) : Within(s, grids[p])}
            entered == {s \in Completions(sudoku) : Within(s, EntryGrid(p))}
        IN  /\ here # {} =>
                  /\ \E step \in {infer_step(grids[p])} :
                        step.ok /\ \A s \in here : Within(s, step.grid)
                  /\ \E inferred \in {infer(grids[p])} :
                        inferred.ok /\ \A s \in here : Within(s, inferred.grid)
            /\ \A s \in entered : Within(s, grids[p])
            /\ frames[p].pc = "done" /\ frames[p].result.kind = "DepthLimit" =>
                  \A s \in entered : Within(s, frames[p].result.grid)

\* A node returns, in DepthLimit, a grid merged from its branches that holds
\* two completed grids
C13_Witness ==
    /\ Root \in DOMAIN frames
    /\ frames[Root].pc = "done"
    /\ frames[Root].result.kind = "DepthLimit"
    /\ frames[Root].n > 0
    /\ \E s \in Completions(sudoku) : \E t \in Completions(sudoku) :
          s # t /\ Within(s, EntryGrid(Root)) /\ Within(t, frames[Root].result.grid)

\* Every cell of columns 0..7 is determined
FirstColumnsDetermined(g) == \A i \in Idx : \A j \in 0..7 : Single(g[i][j])

\* C14: no call of recursive_hypothetical ends in a failure of solved: at
\* every call of solved from it (after infer returned Ok) the grid is not
\* broken, its last column is determined whenever its columns 0..7 are, and
\* solved returns without failing.
C14_SolvedNeverFailsInSearch ==
    /\ outcome.kind # "Panic"
    /\ \A p \in DOMAIN frames :
          /\ frames[p].result.kind # "Panic"
          /\ frames[p].pc = "infer" =>
                \E inferred \in {infer(grids[p])} :
                    inferred.ok =>
                        /\ ~BrokenByRule(inferred.grid)
                        /\ FirstColumnsDetermined(inferred.grid) =>
                               AllDetermined(inferred.grid)
                        /\ solved(inferred.grid).tag # "Panic"

\* A branch called on a grid with an undetermined cell in the last column
\* has returned the solution its own call of solved gave
C14_Witness ==
    \E p \in DOMAIN frames :
        /\ p # Root
        /\ frames[p].pc = "done"
        /\ frames[p].kids = 0
        /\ frames[p].result.kind = "Ok"
        /\ \E i \in Idx : ~Single(EntryGrid(p)[i][8])

====
